---- MODULE Spec2Model ----
(***************************************************************************)
(* Model of nested_grid_plotter: the nested layout builders                *)
(* (SubplotMosaicBuilder, SubfigsBuilder), the NestedGridPlotter           *)
(* registries and look-ups, legend aggregation, savefig, and the colour    *)
(* bar scaling of imshow.py.                                               *)
(*                                                                         *)
(* Python dicts are insertion ordered: a dict is a sequence of entries     *)
(* [k |-> key, v |-> value] with pairwise distinct keys.  A figure or      *)
(* subfigure object is the path of grid cells <<row, col>> leading to it   *)
(* from the root figure <<>>; an Axes object is a record naming the        *)
(* (sub)figure it was created in.  Optional values are <<>> (None) or      *)
(* <<v>>.                                                                  *)
(***************************************************************************)
EXTENDS Integers, Sequences, FiniteSets, TLC

VARIABLES
    pc,                  \* "new" | "ready" | "failed" | "pure"
    layout,              \* the builder handed to NestedGridPlotter(...)
    grouped_sf_dict,     \* figname -> (subfigure name -> subfigure)
    grouped_ax_dict,     \* figname -> (axis name -> axis)
    error,               \* None or Some(exception raised by the constructor)
    log,                 \* library calls and registrations made while building
    figure,              \* the library's object tree: subfigures and axes created
    additional_handles,  \* _additional_handles: axis name -> extra handles
    additional_labels,   \* _additional_labels: axis name -> extra labels
    own,                 \* axis -> its ax.get_legend_handles_labels() items
    legends,             \* figure or subfigure -> its .legends list
    sup,                 \* figure or subfigure -> its suptitle/supxlabel/supylabel
    ret                  \* the last operation: its arguments and its outcome

vars == <<pc, layout, grouped_sf_dict, grouped_ax_dict, error, log, figure,
          additional_handles, additional_labels, own, legends, sup, ret>>

registries == <<grouped_sf_dict, grouped_ax_dict>>

extras == <<additional_handles, additional_labels>>

artists == <<figure, own, legends, sup>>

\* an operation that only returns or raises
unchanged_plotter ==
    UNCHANGED <<pc, layout, registries, error, log, extras, artists>>

-----------------------------------------------------------------------------
(* Bounds *)

MaxBuilders == 4   \* builder objects in one layout
MaxRows == 2       \* nrows of a SubfigsBuilder
MaxCols == 2       \* ncols of a SubfigsBuilder
MaxCells == 1      \* cells of a mosaic

SfNames == {"A", "B"}          \* subfigure names a caller may choose
AxLabels == {"x", "y"}         \* axis labels a caller may choose
EmptySentinel == "."           \* SubplotMosaicBuilder.empty_sentinel default
RootName == "fig"

-----------------------------------------------------------------------------
(* Python dict operations *)

Min(a, b) == IF a < b THEN a ELSE b

SeqToSet(q) == {q[i] : i \in 1..Len(q)}

DictHas(d, k) == \E i \in 1..Len(d) : d[i].k = k

DictGet(d, k) == d[CHOOSE i \in 1..Len(d) : d[i].k = k].v

Entry(k, v) == [k |-> k, v |-> v]

\* d[k] = v: an existing key keeps its position, a new key goes last
DictSet(d, k, v) ==
    IF DictHas(d, k)
    THEN [i \in 1..Len(d) |-> IF d[i].k = k THEN [k |-> k, v |-> v] ELSE d[i]]
    ELSE Append(d, [k |-> k, v |-> v])

DictKeys(d) == [i \in 1..Len(d) |-> d[i].k]

DictValues(d) == [i \in 1..Len(d) |-> d[i].v]

KeySet(d) == {d[i].k : i \in 1..Len(d)}

\* d.update(e)
RECURSIVE DictUpdate(_, _)
DictUpdate(d, e) ==
    IF e = <<>> THEN d
    ELSE DictUpdate(DictSet(d, e[1].k, e[1].v), Tail(e))

-----------------------------------------------------------------------------
(* Builders: the layout a caller declares *)

None == <<>>
Some(v) == <<v>>

\* SubplotMosaicBuilder(mosaic): the mosaic is the row-major list of its cells
SubplotMosaicBuilder(mosaic) ==
    [kind |-> "mosaic", mosaic |-> mosaic, nrows |-> 0, ncols |-> 0,
     sub_builders |-> None]

\* SubfigsBuilder(nrows=, ncols=, sub_builders=): sub_builders is None or
\* Some(dict name -> builder)
SubfigsBuilder(nrows, ncols, sub_builders) ==
    [kind |-> "subfigs", mosaic |-> <<>>, nrows |-> nrows, ncols |-> ncols,
     sub_builders |-> sub_builders]

RECURSIVE SeqsOfLen(_, _)
SeqsOfLen(S, n) ==
    IF n = 0 THEN {<<>>}
    ELSE {Append(s, e) : s \in SeqsOfLen(S, n - 1), e \in S}

Mosaics ==
    UNION {SeqsOfLen(AxLabels \cup {EmptySentinel}, n) : n \in 1..MaxCells}

Shapes == (1..MaxRows) \X (1..MaxCols)

\* the builders made of exactly n builder objects, and the sub_builders dicts
\* whose values are made of exactly n builder objects in all
RECURSIVE BuildersOfSize(_), SubDicts(_)
BuildersOfSize(n) ==
    IF n < 1 THEN {}
    ELSE (IF n = 1
          THEN {SubplotMosaicBuilder(m) : m \in Mosaics}
               \cup {SubfigsBuilder(s[1], s[2], None) : s \in Shapes}
          ELSE {})
         \cup {SubfigsBuilder(s[1], s[2], Some(d)) :
                   s \in Shapes, d \in SubDicts(n - 1)}

SubDicts(n) ==
    IF n = 0 THEN {<<>>}
    ELSE UNION {
           UNION {
             {Append(d, [k |-> name, v |-> b]) :
                  name \in SfNames \ KeySet(d), b \in BuildersOfSize(sz)}
             : d \in SubDicts(n - sz)}
           : sz \in 1..n}

\* what a caller may pass as `builder`: None, or a layout of at most n builders
Layouts(n) == {None} \cup {Some(b) : b \in UNION {BuildersOfSize(k) : k \in 1..n}}

-----------------------------------------------------------------------------
(* Library objects created while building *)

RootFig == <<>>

\* fig.subfigures(nrows, ncols), flattened: the cells in row-major order
NewSubfigs(fig, nrows, ncols) ==
    [n \in 1..(nrows * ncols) |->
        Append(fig, <<(n - 1) \div ncols, (n - 1) % ncols>>)]

Axis(fig, label) == [fig |-> fig, label |-> label, twin |-> FALSE]

\* fig.subplot_mosaic(mosaic): one Axes per distinct label, the empty
\* sentinel left out
RECURSIVE SubplotMosaic(_, _)
SubplotMosaic(fig, mosaic) ==
    IF mosaic = <<>> THEN <<>>
    ELSE LET rest == SubplotMosaic(fig, SubSeq(mosaic, 1, Len(mosaic) - 1))
             lab == mosaic[Len(mosaic)]
         IN IF lab = EmptySentinel \/ DictHas(rest, lab) THEN rest
            ELSE DictSet(rest, lab, Axis(fig, lab))

Event(op, fig, name, obj) == [op |-> op, fig |-> fig, name |-> name, obj |-> obj]

Exception(type, what, at, name, names, given, expected) ==
    [type |-> type, what |-> what, at |-> at, name |-> name, names |-> names,
     given |-> given, expected |-> expected]

EmptyBuild ==
    [sf |-> <<>>, ax |-> <<>>, err |-> None, log |-> <<>>, subfigs |-> {}, axes |-> {}]

-----------------------------------------------------------------------------
(* NestedBuilder.__call__(fig, figname, grouped_sf_dict, grouped_ax_dict) *)

SubplotMosaicBuilderCall(b, fig, figname, st) ==
    [st EXCEPT
        !.ax = DictSet(@, figname, SubplotMosaic(fig, b.mosaic)),
        !.axes = @ \cup {e.v : e \in {SubplotMosaic(fig, b.mosaic)[i] :
                                        i \in 1..Len(SubplotMosaic(fig, b.mosaic))}},
        !.log = Append(@, Event("subplot_mosaic", fig, figname, fig))]

DefaultSfName(figname, n) ==
    (IF figname # RootName THEN figname ELSE "subfig") \o "_" \o ToString(n + 1)

RECURSIVE Build(_, _, _, _), ApplySubBuilders(_, _, _, _, _, _)
RECURSIVE DefaultSubfigs(_, _, _, _, _)

\* lines 273-278: zip(new_subfigs, sub_builders.items()), from the i-th pair on
ApplySubBuilders(subs, new_subfigs, i, fig, figname, st) ==
    IF i > Len(subs) \/ i > Len(new_subfigs) THEN st
    ELSE LET sf_name == subs[i].k
             st1 == [st EXCEPT
                       !.sf = DictSet(@, figname,
                                  DictSet(DictGet(@, figname), sf_name, new_subfigs[i])),
                       !.log = Append(@, Event("register_sf", fig, sf_name, new_subfigs[i]))]
             st2 == Build(subs[i].v, new_subfigs[i], sf_name, st1)
         IN IF st2.err # None THEN st2
            ELSE ApplySubBuilders(subs, new_subfigs, i + 1, fig, figname, st2)

\* lines 279-286: no sub_builders, one default Axes per cell, from cell n on
DefaultSubfigs(new_subfigs, n, fig, figname, st) ==
    IF n >= Len(new_subfigs) THEN st
    ELSE LET sf_name == DefaultSfName(figname, n)
             ax_name == sf_name \o "_ax1-1"
             st1 == [st EXCEPT
                       !.sf = DictSet(@, figname,
                                  DictSet(DictGet(@, figname), sf_name, new_subfigs[n + 1])),
                       !.ax = DictSet(@, sf_name,
                                  <<[k |-> ax_name, v |-> Axis(new_subfigs[n + 1], ax_name)]>>),
                       !.axes = @ \cup {Axis(new_subfigs[n + 1], ax_name)},
                       !.log = Append(@, Event("register_sf", fig, sf_name, new_subfigs[n + 1]))]
         IN DefaultSubfigs(new_subfigs, n + 1, fig, figname, st1)

CountMismatch(b) ==
    /\ b.sub_builders # None
    /\ Len(b.sub_builders[1]) # b.nrows * b.ncols

\* SubfigsBuilderCall with the count check moved after the first registration
SubfigsBuilderCallCheckLate(b, fig, figname, st) ==
    LET st1 == [st EXCEPT
                  !.sf = DictSet(@, figname, <<>>),
                  !.log = Append(@, Event("subfigures", fig, figname, fig))]
    IN IF CountMismatch(b)
       THEN [st1 EXCEPT !.err = Some(Exception("Exception", "builders_count", fig,
                                 figname, <<>>, Len(b.sub_builders[1]), b.nrows * b.ncols))]
       ELSE LET new_subfigs == NewSubfigs(fig, b.nrows, b.ncols)
                st2 == [st1 EXCEPT
                          !.subfigs = @ \cup {new_subfigs[n] : n \in 1..Len(new_subfigs)}]
            IN IF b.sub_builders # None
               THEN ApplySubBuilders(b.sub_builders[1], new_subfigs, 1, fig, figname, st2)
               ELSE DefaultSubfigs(new_subfigs, 0, fig, figname, st2)

SubfigsBuilderCall(b, fig, figname, st) ==
    IF CountMismatch(b)
    THEN [st EXCEPT !.err = Some(Exception("Exception", "builders_count", fig, figname,
                                           <<>>, Len(b.sub_builders[1]), b.nrows * b.ncols))]
    ELSE LET new_subfigs == NewSubfigs(fig, b.nrows, b.ncols)
             st1 == [st EXCEPT
                       !.sf = DictSet(@, figname, <<>>),
                       !.subfigs = @ \cup {new_subfigs[n] : n \in 1..Len(new_subfigs)},
                       !.log = Append(@, Event("subfigures", fig, figname, fig))]
         IN IF b.sub_builders # None
            THEN ApplySubBuilders(b.sub_builders[1], new_subfigs, 1, fig, figname, st1)
            ELSE DefaultSubfigs(new_subfigs, 0, fig, figname, st1)

Build(b, fig, figname, st) ==
    IF b.kind = "mosaic"
    THEN SubplotMosaicBuilderCall(b, fig, figname, st)
    ELSE SubfigsBuilderCall(b, fig, figname, st)

-----------------------------------------------------------------------------
(* NestedGridPlotter: registries *)

\* dict(ChainMap(*list(grouped.values())[::-1])): keys in first-insertion
\* order, each mapped to its value in the last group holding it
RECURSIVE Flatten(_)
Flatten(grouped) ==
    IF grouped = <<>> THEN <<>>
    ELSE DictUpdate(Flatten(SubSeq(grouped, 1, Len(grouped) - 1)),
                    grouped[Len(grouped)].v)

ax_dict == Flatten(grouped_ax_dict)

sf_dict == Flatten(grouped_sf_dict)

\* temp of _check_if_subplot_names_are_unique: axis name -> the groups using it
RECURSIVE GroupsByName(_, _)
GroupsByName(grouped, temp) ==
    IF grouped = <<>> THEN temp
    ELSE LET g == grouped[1]
             add[i \in 0..Len(g.v)] ==
                 IF i = 0 THEN temp
                 ELSE LET k2 == g.v[i].k
                          old == IF DictHas(add[i - 1], k2)
                                 THEN DictGet(add[i - 1], k2) ELSE <<>>
                      IN DictSet(add[i - 1], k2, Append(old, g.k))
         IN GroupsByName(Tail(grouped), add[Len(g.v)])

\* [k for k, v in temp.items() if len(v) > 1]
NonUniqueKeys(temp) ==
    LET F[i \in 0..Len(temp)] ==
            IF i = 0 THEN <<>>
            ELSE IF Len(temp[i].v) > 1 THEN Append(F[i - 1], temp[i].k) ELSE F[i - 1]
    IN F[Len(temp)]

\* None, or Some(the exception raised)
check_if_subplot_names_are_unique(grouped) ==
    LET temp == GroupsByName(grouped, <<>>)
        non_unique_keys == NonUniqueKeys(temp)
    IN IF Len(non_unique_keys) = 1
       THEN Some(Exception("Exception", "name_reused", RootFig, RootName,
                           non_unique_keys, 0, 0))
       ELSE IF Len(non_unique_keys) > 1
       THEN Some(Exception("Exception", "names_reused", RootFig, RootName,
                           non_unique_keys, 0, 0))
       ELSE None

DefaultBuilder == SubplotMosaicBuilder(<<"ax1-1">>)

NoRet == [op |-> "none", arg |-> <<>>, raised |-> None, value |-> <<>>]

Returned(op, arg, value) == [op |-> op, arg |-> arg, raised |-> None, value |-> value]

Raised(op, arg, exc) == [op |-> op, arg |-> arg, raised |-> Some(exc), value |-> <<>>]

Figs(st) == {RootFig} \cup st.subfigs

\* NestedGridPlotter.__init__(builder): the plotter built from `builder`
Constructed(builder) ==
    LET st == Build(IF builder = None THEN DefaultBuilder ELSE builder[1],
                    RootFig, RootName, EmptyBuild)
        exc == IF st.err # None THEN st.err
               ELSE check_if_subplot_names_are_unique(st.ax)
        names == DictKeys(Flatten(st.ax))
    IN [sf |-> st.sf, ax |-> st.ax, log |-> st.log, err |-> exc,
        figure |-> [subfigs |-> st.subfigs, axes |-> st.axes],
        additional_handles |->
            IF exc # None THEN <<>>
            ELSE [i \in 1..Len(names) |-> [k |-> names[i], v |-> <<>>]],
        additional_labels |->
            IF exc # None THEN <<>>
            ELSE [i \in 1..Len(names) |-> [k |-> names[i], v |-> <<>>]],
        own |-> [a \in st.axes |-> <<>>],
        legends |-> [f \in Figs(st) |-> <<>>],
        sup |-> [f \in Figs(st) |-> {}]]

Construct ==
    /\ pc = "new"
    /\ LET p == Constructed(layout)
       IN /\ grouped_sf_dict' = p.sf
          /\ grouped_ax_dict' = p.ax
          /\ log' = p.log
          /\ error' = p.err
          /\ figure' = p.figure
          /\ additional_handles' = p.additional_handles
          /\ additional_labels' = p.additional_labels
          /\ own' = p.own
          /\ legends' = p.legends
          /\ sup' = p.sup
          /\ pc' = IF p.err = None THEN "ready" ELSE "failed"
    /\ ret' = NoRet
    /\ UNCHANGED layout

-----------------------------------------------------------------------------
(* NestedGridPlotter: look-ups *)

MaxNames == 2   \* names in one get_axes call

\* the outcome of get_axis(ax_name): [raised, value]
get_axis(ax_name) ==
    IF ax_name \notin KeySet(ax_dict)
    THEN Raised("get_axis", ax_name,
                Exception("ValueError", "axis_missing", RootFig, ax_name, <<>>, 0, 0))
    ELSE Returned("get_axis", ax_name, DictGet(ax_dict, ax_name))

\* get_subfigure looking the name up among the axes
get_subfigure_among_axes(subfig_name) ==
    IF subfig_name \notin KeySet(ax_dict)
    THEN Raised("get_subfigure", subfig_name,
                Exception("ValueError", "subfigure_missing", RootFig, subfig_name,
                          <<>>, 0, 0))
    ELSE Returned("get_subfigure", subfig_name, DictGet(ax_dict, subfig_name))

get_subfigure(subfig_name) ==
    IF subfig_name \notin KeySet(sf_dict)
    THEN Raised("get_subfigure", subfig_name,
                Exception("ValueError", "subfigure_missing", RootFig, subfig_name,
                          <<>>, 0, 0))
    ELSE Returned("get_subfigure", subfig_name, DictGet(sf_dict, subfig_name))

\* [self.get_axis(axn) for axn in ax_names]: the first failing get_axis ends it
get_axes(ax_names) ==
    LET F[i \in 0..Len(ax_names)] ==
            IF i = 0 THEN Returned("get_axes", ax_names, <<>>)
            ELSE IF F[i - 1].raised # None THEN F[i - 1]
            ELSE LET r == get_axis(ax_names[i])
                 IN IF r.raised # None
                    THEN Raised("get_axes", ax_names, r.raised[1])
                    ELSE Returned("get_axes", ax_names, Append(F[i - 1].value, r.value))
    IN F[Len(ax_names)]

\* names a caller may ask for: every registered key, and names never registered
LookupNames == KeySet(ax_dict) \cup KeySet(sf_dict) \cup {RootName, "nope"}

GetAxis ==
    /\ pc = "ready"
    /\ \E n \in LookupNames : ret' = get_axis(n)
    /\ unchanged_plotter

GetSubfigure ==
    /\ pc = "ready"
    /\ \E n \in LookupNames : ret' = get_subfigure(n)
    /\ unchanged_plotter

GetAxes ==
    /\ pc = "ready"
    /\ \E k \in 0..MaxNames : \E ns \in SeqsOfLen(LookupNames, k) : ret' = get_axes(ns)
    /\ unchanged_plotter

-----------------------------------------------------------------------------------------------------------------------------------------------------
(* Artists *)

MaxSetup == 2   \* artists a caller has put on the figure: plotted lines,
                \* extra legend items, twin axes, suptitles and the like

SupKinds == {"supxlabel", "supylabel", "suptitle"}

\* an artist a legend can show; figure is None or Some(the figure holding it)
Handle(id, fig) == [id |-> id, figure |-> fig]

\* a legend, a suptitle / supxlabel / supylabel, or an artist of the caller
Artist(kind, fig, handles, labels) ==
    [kind |-> kind, fig |-> fig, handles |-> handles, labels |-> labels]

Legend(fig, handles, labels) == Artist("legend", fig, handles, labels)

SupArtist(kind, fig) == Artist(kind, fig, <<>>, <<>>)

UserArtist == Artist("user", RootFig, <<>>, <<>>)

Items(handles, labels) == [handles |-> handles, labels |-> labels]

\* ax.twinx(): a second Axes over the same place of the same figure
Twin(ax) == [ax EXCEPT !.twin = TRUE]

\* ax.bbox.bounds: a twin lies exactly over its base Axes
Bounds(ax) == [fig |-> ax.fig, label |-> ax.label]

\* ax.figure.axes: the Axes created in the same figure or subfigure
FigureAxes(fig) == {a \in figure.axes : a.fig = fig}

\* ax.get_legend_handles_labels()
get_legend_handles_labels(ax) ==
    Items([i \in 1..Len(own[ax]) |-> own[ax][i].handle],
          [i \in 1..Len(own[ax]) |-> own[ax][i].label])

MaxItems == 3   \* handles, and labels, handed to one de-duplication

Handles == {"h1", "h2"}
Labels == {"a", "b"}

\* dict(zip(labels, handles)) keeping, for a label met again, its first handle
KeepFirstHandle(handles, labels) ==
    LET by_label[i \in 0..Min(Len(handles), Len(labels))] ==
            IF i = 0 THEN <<>>
            ELSE IF DictHas(by_label[i - 1], labels[i]) THEN by_label[i - 1]
            ELSE DictSet(by_label[i - 1], labels[i], handles[i])
        d == by_label[Min(Len(handles), Len(labels))]
    IN [handles |-> DictValues(d), labels |-> DictKeys(d)]

\* dict(zip(labels, handles)) moving a label met again to the end
MoveToLastOccurrence(handles, labels) ==
    LET by_label[i \in 0..Min(Len(handles), Len(labels))] ==
            IF i = 0 THEN <<>>
            ELSE Append(SelectSeq(by_label[i - 1], LAMBDA e : e.k # labels[i]),
                        Entry(labels[i], handles[i]))
        d == by_label[Min(Len(handles), Len(labels))]
    IN [handles |-> DictValues(d), labels |-> DictKeys(d)]

\* by_label = dict(zip(labels, handles)); (values, keys)
remove_dulicated_legend_items(handles, labels) ==
    LET by_label[i \in 0..Min(Len(handles), Len(labels))] ==
            IF i = 0 THEN <<>>
            ELSE DictSet(by_label[i - 1], labels[i], handles[i])
        d == by_label[Min(Len(handles), Len(labels))]
    IN [handles |-> DictValues(d), labels |-> DictKeys(d)]

-----------------------------------------------------------------------------
(* NestedGridPlotter: legends *)

\* a set of Axes as a list, in no particular order
RECURSIVE SetToSeq(_)
SetToSeq(S) ==
    IF S = {} THEN <<>>
    ELSE LET x == CHOOSE y \in S : TRUE IN <<x>> \o SetToSeq(S \ {x})

RECURSIVE ConcatItems(_)
ConcatItems(q) ==
    IF q = <<>> THEN Items(<<>>, <<>>)
    ELSE LET rest == ConcatItems(Tail(q))
         IN Items(q[1].handles \o rest.handles, q[1].labels \o rest.labels)

\* dict.get(key, [])
GetOrEmpty(d, k) == IF DictHas(d, k) THEN DictGet(d, k) ELSE <<>>

\* _get_axis_legend_items(ax_name) merging every other Axes of the figure,
\* whatever its bounds
axis_legend_items_any_bounds(ax_name) ==
    LET ax == DictGet(ax_dict, ax_name)
        others == SetToSeq({o \in FigureAxes(ax.fig) : o # ax})
    IN ConcatItems(<<get_legend_handles_labels(ax)>>
                   \o [i \in 1..Len(others) |-> get_legend_handles_labels(others[i])]
                   \o <<Items(GetOrEmpty(additional_handles, ax_name),
                              GetOrEmpty(additional_labels, ax_name))>>)

\* _get_axis_legend_items(ax_name)
axis_legend_items(ax_name) ==
    LET ax == DictGet(ax_dict, ax_name)
        others == SetToSeq({o \in FigureAxes(ax.fig) : o # ax /\ Bounds(o) = Bounds(ax)})
    IN ConcatItems(<<get_legend_handles_labels(ax)>>
                   \o [i \in 1..Len(others) |-> get_legend_handles_labels(others[i])]
                   \o <<Items(GetOrEmpty(additional_handles, ax_name),
                              GetOrEmpty(additional_labels, ax_name))>>)

\* list(_iterate_subfig_grouped_axes(subfig_name)): the groups of axes under
\* the name; raised when a name on the way is no key of grouped_sf_dict
RECURSIVE iterate_subfig_grouped_axes(_)
iterate_subfig_grouped_axes(subfig_name) ==
    IF DictHas(grouped_ax_dict, subfig_name)
    THEN [raised |-> FALSE, groups |-> <<DictGet(grouped_ax_dict, subfig_name)>>]
    ELSE IF ~DictHas(grouped_sf_dict, subfig_name)
    THEN [raised |-> TRUE, groups |-> <<>>]
    ELSE LET names == DictKeys(DictGet(grouped_sf_dict, subfig_name))
             F[i \in 0..Len(names)] ==
                 IF i = 0 THEN [raised |-> FALSE, groups |-> <<>>]
                 ELSE IF F[i - 1].raised THEN F[i - 1]
                 ELSE LET sub == iterate_subfig_grouped_axes(names[i])
                      IN [raised |-> sub.raised, groups |-> F[i - 1].groups \o sub.groups]
         IN F[Len(names)]

RECURSIVE MergeDicts(_)
MergeDicts(q) ==
    IF q = <<>> THEN <<>>
    ELSE DictUpdate(MergeDicts(SubSeq(q, 1, Len(q) - 1)), q[Len(q)])

\* get_subfigure_ax_dict(subfig_name)
get_subfigure_ax_dict(subfig_name) ==
    LET it == iterate_subfig_grouped_axes(subfig_name)
    IN [raised |-> it.raised, dict |-> MergeDicts(it.groups)]

\* _gather_figure_legend_items(fig_name, remove_duplicates); fig_name is None
\* or Some(name)
gather_figure_legend_items(fig_name, remove_duplicates) ==
    LET source == IF fig_name = None THEN [raised |-> FALSE, dict |-> ax_dict]
                  ELSE get_subfigure_ax_dict(fig_name[1])
        names == DictKeys(source.dict)
        all == ConcatItems([i \in 1..Len(names) |-> axis_legend_items(names[i])])
        items == IF remove_duplicates
                 THEN remove_dulicated_legend_items(all.handles, all.labels)
                 ELSE all
    IN [raised |-> source.raised, handles |-> items.handles, labels |-> items.labels]

KeyError(name) == Exception("KeyError", "key", RootFig, name, <<>>, 0, 0)

\* lines 727-730: a handle of another figure is copied into the legend's
AdoptedBy(obj, handle) ==
    IF handle.figure = Some(obj) THEN handle
    ELSE Handle(handle.id \o "'", Some(obj))

\* add_fig_legend(name) without obj.legends.clear(): the new legend comes
\* after those the target holds
add_fig_legend_keeping_legends(name) ==
    LET got == gather_figure_legend_items(name, TRUE)
    IN IF got.raised
       THEN [ret |-> Raised("add_fig_legend", name, KeyError(name[1])),
             legends |-> legends]
       ELSE IF Len(got.handles) = 0
       THEN [ret |-> Returned("add_fig_legend", name, None), legends |-> legends]
       ELSE IF name # None /\ ~DictHas(sf_dict, name[1])
       THEN [ret |-> Raised("add_fig_legend", name, KeyError(name[1])),
             legends |-> legends]
       ELSE LET obj == IF name = None THEN RootFig ELSE DictGet(sf_dict, name[1])
                lgd == Legend(obj,
                              [i \in 1..Len(got.handles) |-> AdoptedBy(obj, got.handles[i])],
                              got.labels)
            IN [ret |-> Returned("add_fig_legend", name, Some(lgd)),
                legends |-> [legends EXCEPT ![obj] = Append(@, lgd)]]

\* add_fig_legend(name): the outcome and the legends afterwards; the returned
\* value is None or Some(legend)
add_fig_legend(name) ==
    LET got == gather_figure_legend_items(name, TRUE)
    IN IF got.raised
       THEN [ret |-> Raised("add_fig_legend", name, KeyError(name[1])),
             legends |-> legends]
       ELSE IF Len(got.handles) = 0
       THEN [ret |-> Returned("add_fig_legend", name, None), legends |-> legends]
       ELSE IF name # None /\ ~DictHas(sf_dict, name[1])
       THEN [ret |-> Raised("add_fig_legend", name, KeyError(name[1])),
             legends |-> legends]
       ELSE LET obj == IF name = None THEN RootFig ELSE DictGet(sf_dict, name[1])
                lgd == Legend(obj,
                              [i \in 1..Len(got.handles) |-> AdoptedBy(obj, got.handles[i])],
                              got.labels)
            IN [ret |-> Returned("add_fig_legend", name, Some(lgd)),
                legends |-> [legends EXCEPT ![obj] = <<lgd>>]]

FigNames == {None} \cup {Some(n) : n \in KeySet(sf_dict) \cup {RootName}}

AddFigLegend ==
    /\ pc = "ready"
    /\ \E name \in FigNames :
          /\ ret' = add_fig_legend(name).ret
          /\ legends' = add_fig_legend(name).legends
    /\ UNCHANGED <<pc, layout, registries, error, log, extras, figure, own, sup>>

\* add_extra_legend_item(ax_name, handle, label)
Used ==
    LET axs == SetToSeq(figure.axes)
        RECURSIVE Sum(_)
        Sum(q) == IF q = <<>> THEN 0 ELSE q[1] + Sum(Tail(q))
    IN Sum([i \in 1..Len(axs) |-> Len(own[axs[i]])])
       + Sum([i \in 1..Len(additional_handles) |-> Len(additional_handles[i].v)])
       + Cardinality({a \in figure.axes : a.twin})
       + Sum([i \in 1..Len(SetToSeq(DOMAIN sup)) |->
                 Cardinality(sup[SetToSeq(DOMAIN sup)[i]])])

AddExtraLegendItem ==
    /\ pc = "ready"
    /\ Used < MaxSetup
    /\ \E ax_name \in KeySet(ax_dict), h \in Handles, label \in Labels :
          IF ~DictHas(additional_handles, ax_name)
          THEN /\ ret' = Raised("add_extra_legend_item",
                              [ax_name |-> ax_name, handle |-> Handle(h, None),
                               label |-> label],
                              KeyError(ax_name))
               /\ UNCHANGED extras
          ELSE /\ additional_handles' =
                      DictSet(additional_handles, ax_name,
                              Append(DictGet(additional_handles, ax_name), Handle(h, None)))
               /\ additional_labels' =
                      DictSet(additional_labels, ax_name,
                              Append(DictGet(additional_labels, ax_name), label))
               /\ ret' = Returned("add_extra_legend_item",
                                  [ax_name |-> ax_name, handle |-> Handle(h, None),
                                   label |-> label],
                                  <<>>)
    /\ UNCHANGED <<pc, layout, registries, error, log, artists>>

\* clear_fig_legends() clearing the legends of the root figure only
clear_root_legends_only ==
    [f \in DOMAIN legends |-> IF f = RootFig THEN <<>> ELSE legends[f]]

\* clear_fig_legends(): the legends afterwards
clear_fig_legends ==
    [f \in DOMAIN legends |->
        IF f = RootFig \/ \E i \in 1..Len(sf_dict) : sf_dict[i].v = f
        THEN <<>> ELSE legends[f]]

ClearFigLegends ==
    /\ pc = "ready"
    /\ legends' = clear_fig_legends
    /\ ret' = Returned("clear_fig_legends", <<>>, <<>>)
    /\ UNCHANGED <<pc, layout, registries, error, log, extras, figure, own, sup>>

ClearAllAxes ==
    /\ pc = "ready"
    /\ own' = [a \in DOMAIN own |->
                  IF \E i \in 1..Len(ax_dict) : ax_dict[i].v = a THEN <<>> ELSE own[a]]
    /\ additional_handles' = <<>>
    /\ additional_labels' = <<>>
    /\ legends' = clear_fig_legends
    /\ ret' = Returned("clear_all_axes", <<>>, <<>>)
    /\ UNCHANGED <<pc, layout, registries, error, log, figure, sup>>

-----------------------------------------------------------------------------
(* NestedGridPlotter.savefig *)

\* kwargs.pop(key, default) and kwargs.get(key, default): the value
PopValue(d, k, default) == IF DictHas(d, k) THEN DictGet(d, k) ELSE default

\* kwargs.pop(key, default): the dict afterwards
Popped(d, k) == SelectSeq(d, LAMBDA e : e.k # k)

\* the suptitle / supxlabel / supylabel of a figure, in the order of lines 469-474
SupArtists(fig) ==
    (IF "supxlabel" \in sup[fig] THEN <<SupArtist("supxlabel", fig)>> ELSE <<>>)
    \o (IF "supylabel" \in sup[fig] THEN <<SupArtist("supylabel", fig)>> ELSE <<>>)
    \o (IF "suptitle" \in sup[fig] THEN <<SupArtist("suptitle", fig)>> ELSE <<>>)

RECURSIVE Concat(_)
Concat(q) == IF q = <<>> THEN <<>> ELSE q[1] \o Concat(Tail(q))

\* lines 463-474: the bbox_extra_artists savefig hands on
bbox_extra_artists(kwargs) ==
    LET subfigs == DictValues(sf_dict)
        figs == <<RootFig>> \o subfigs
    IN PopValue(kwargs, "bbox_extra_artists", <<>>)
       \o legends[RootFig]
       \o Concat([i \in 1..Len(subfigs) |-> legends[subfigs[i]]])
       \o Concat([i \in 1..Len(figs) |-> SupArtists(figs[i])])

\* savefig with bbox_inches always "tight"
savefig_always_tight(args, kwargs) ==
    [args |-> args,
     kwargs |-> DictSet(DictSet(Popped(kwargs, "bbox_inches"), "bbox_extra_artists",
                                bbox_extra_artists(Popped(kwargs, "bbox_inches"))),
                        "bbox_inches", "tight")]

\* savefig(*args, **kwargs): the call self.fig.savefig(...) it makes
savefig(args, kwargs) ==
    LET bbox_inches == PopValue(kwargs, "bbox_inches", "tight")
        kwargs1 == Popped(kwargs, "bbox_inches")
        kwargs2 == DictSet(kwargs1, "bbox_extra_artists", bbox_extra_artists(kwargs1))
    IN [args |-> args, kwargs |-> DictSet(kwargs2, "bbox_inches", bbox_inches)]

\* the keyword options of a caller who gives, or not, a dpi, a bbox_inches
\* and a bbox_extra_artists
SaveKwargs(dpi, bbox_inches, extra_artists) ==
    (IF dpi THEN <<Entry("dpi", 300)>> ELSE <<>>)
    \o (IF bbox_inches THEN <<Entry("bbox_inches", "standard")>> ELSE <<>>)
    \o (IF extra_artists THEN <<Entry("bbox_extra_artists", <<UserArtist>>)>> ELSE <<>>)

SaveFig ==
    /\ pc = "ready"
    /\ \E dpi, bbox_inches, extra_artists \in BOOLEAN :
          LET kwargs == SaveKwargs(dpi, bbox_inches, extra_artists)
          IN ret' = Returned("savefig", [args |-> <<"out.png">>, kwargs |-> kwargs],
                             savefig(<<"out.png">>, kwargs))
    /\ unchanged_plotter

-----------------------------------------------------------------------------
(* What a caller does on the axes and figures the plotter hands out *)

\* get_axis(name).plot(..., label=label): a new labelled line on the axis
PlotOn(ax, label) ==
    /\ Used < MaxSetup
    /\ own' = [own EXCEPT ![ax] = Append(@,
                  [handle |-> Handle(ax.label \o (IF ax.twin THEN "~" ELSE "") \o "#"
                                        \o ToString(Len(own[ax]) + 1), Some(ax.fig)),
                   label |-> label])]
    /\ ret' = Returned("plot", ax, <<>>)
    /\ UNCHANGED <<pc, layout, registries, error, log, extras, figure, legends, sup>>

Plot ==
    /\ pc = "ready"
    /\ \E i \in 1..Len(ax_dict), label \in Labels :
          \/ PlotOn(ax_dict[i].v, label)
          \/ Twin(ax_dict[i].v) \in figure.axes /\ PlotOn(Twin(ax_dict[i].v), label)

\* get_axis(name).twinx()
Twinx ==
    /\ pc = "ready"
    /\ Used < MaxSetup
    /\ \E i \in 1..Len(ax_dict) :
          /\ Twin(ax_dict[i].v) \notin figure.axes
          /\ figure' = [figure EXCEPT !.axes = @ \cup {Twin(ax_dict[i].v)}]
          /\ own' = [a \in DOMAIN own \cup {Twin(ax_dict[i].v)} |->
                        IF a \in DOMAIN own THEN own[a] ELSE <<>>]
          /\ ret' = Returned("twinx", ax_dict[i].k, Twin(ax_dict[i].v))
    /\ UNCHANGED <<pc, layout, registries, error, log, extras, legends, sup>>

\* the figures a caller reaches: plotter.fig, get_subfigure(name) and
\* get_axis(name).figure
HandedOut ==
    {RootFig} \cup SeqToSet(DictValues(sf_dict))
              \cup {ax_dict[i].v.fig : i \in 1..Len(ax_dict)}

\* plotter.fig.suptitle(...), get_subfigure(name).supxlabel(...),
\* get_axis(name).figure.supylabel(...)
SetSup ==
    /\ pc = "ready"
    /\ Used < MaxSetup
    /\ \E f \in HandedOut, kind \in SupKinds :
          /\ kind \notin sup[f]
          /\ sup' = [sup EXCEPT ![f] = @ \cup {kind}]
          /\ ret' = Returned(kind, f, <<>>)
    /\ UNCHANGED <<pc, layout, registries, error, log, extras, figure, own, legends>>

-----------------------------------------------------------------------------
(* Construction, over every layout within the bounds *)

InitBuild ==
    /\ pc = "new"
    /\ layout \in Layouts(MaxBuilders)
    /\ grouped_sf_dict = <<>>
    /\ grouped_ax_dict = <<>>
    /\ error = None
    /\ log = <<>>
    /\ figure = [subfigs |-> {}, axes |-> {}]
    /\ additional_handles = <<>>
    /\ additional_labels = <<>>
    /\ own = <<>>
    /\ legends = <<>>
    /\ sup = <<>>
    /\ ret = NoRet

NextBuild == Construct

SpecBuild == InitBuild /\ [][NextBuild]_vars

-----------------------------------------------------------------------------
(* Plotters a caller holds: the layouts the operations are exercised on *)

ExampleLayouts ==
    { None,
      Some(SubplotMosaicBuilder(<<"x", "y", EmptySentinel, "x">>)),
      Some(SubfigsBuilder(1, 2, None)),
      Some(SubfigsBuilder(1, 2, Some(<<
          Entry("A", SubplotMosaicBuilder(<<"x">>)),
          Entry("B", SubplotMosaicBuilder(<<"y">>))>>))),
      Some(SubfigsBuilder(1, 2, Some(<<
          Entry("A", SubfigsBuilder(2, 1, None)),
          Entry("B", SubplotMosaicBuilder(<<"y">>))>>))),
      Some(SubfigsBuilder(1, 2, Some(<<
          Entry("A", SubfigsBuilder(1, 1, Some(<<
              Entry("B", SubplotMosaicBuilder(<<"x">>))>>))),
          Entry("B", SubplotMosaicBuilder(<<"y">>))>>))) }

\* the state in which NestedGridPlotter(builder=l) has returned
Holding(l) ==
    LET p == Constructed(l)
    IN /\ p.err = None
       /\ pc = "ready"
       /\ layout = l
       /\ grouped_sf_dict = p.sf
       /\ grouped_ax_dict = p.ax
       /\ error = None
       /\ log = p.log
       /\ figure = p.figure
       /\ additional_handles = p.additional_handles
       /\ additional_labels = p.additional_labels
       /\ own = p.own
       /\ legends = p.legends
       /\ sup = p.sup
       /\ ret = NoRet

InitPlotter == \E l \in ExampleLayouts : Holding(l)

InitLookup == InitPlotter

NextLookup ==
    \/ GetAxis
    \/ GetSubfigure
    \/ GetAxes

SpecLookup == InitLookup /\ [][NextLookup]_vars

Next ==
    \/ Plot
    \/ Twinx
    \/ SetSup
    \/ AddExtraLegendItem
    \/ AddFigLegend
    \/ ClearFigLegends
    \/ ClearAllAxes
    \/ SaveFig

Spec == InitPlotter /\ [][Next]_vars


-----------------------------------------------------------------------------
(* Axes by subfigure: grid settings and legend gathering *)

\* add_grid_and_tick_prams_to_all_axes(subfigure_name): the axes handed to
\* add_grid_and_tick_prams_to_axis, in order; subfigure_name is None or
\* Some(name)
add_grid_and_tick_prams_to_all_axes(subfigure_name) ==
    IF subfigure_name = None
    THEN Returned("add_grid_and_tick_prams_to_all_axes", subfigure_name,
                  DictValues(ax_dict))
    ELSE IF ~DictHas(grouped_ax_dict, subfigure_name[1])
    THEN Raised("add_grid_and_tick_prams_to_all_axes", subfigure_name,
                KeyError(subfigure_name[1]))
    ELSE Returned("add_grid_and_tick_prams_to_all_axes", subfigure_name,
                  DictValues(DictGet(grouped_ax_dict, subfigure_name[1])))

AddGridAndTickParams ==
    /\ pc = "ready"
    /\ \E subfigure_name \in FigNames :
          ret' = add_grid_and_tick_prams_to_all_axes(subfigure_name)
    /\ unchanged_plotter

GetSubfigureAxDict ==
    /\ pc = "ready"
    /\ \E subfig_name \in KeySet(sf_dict) \cup {RootName} :
          LET got == get_subfigure_ax_dict(subfig_name)
          IN ret' = IF got.raised
                    THEN Raised("get_subfigure_ax_dict", subfig_name, KeyError(subfig_name))
                    ELSE Returned("get_subfigure_ax_dict", subfig_name, got.dict)
    /\ unchanged_plotter

GatherFigureLegendItems ==
    /\ pc = "ready"
    /\ \E fig_name \in FigNames, remove_duplicates \in BOOLEAN :
          LET got == gather_figure_legend_items(fig_name, remove_duplicates)
              arg == [fig_name |-> fig_name, remove_duplicates |-> remove_duplicates]
          IN ret' = IF got.raised
                    THEN Raised("gather_figure_legend_items", arg, KeyError(fig_name[1]))
                    ELSE Returned("gather_figure_legend_items", arg,
                                  Items(got.handles, got.labels))
    /\ unchanged_plotter

NextScope ==
    \/ Plot
    \/ Twinx
    \/ AddExtraLegendItem
    \/ AddGridAndTickParams
    \/ GetSubfigureAxDict
    \/ GatherFigureLegendItems

SpecScope == InitPlotter /\ [][NextScope]_vars

-----------------------------------------------------------------------------
(* The legend items of one axis, on plotters that carry artists *)

MaxOwn == 1      \* labelled artists on one Axes of such a plotter
MaxExtras == 2   \* extra legend items of one axis of such a plotter
MaxTwins == 1    \* twin Axes on such a plotter

SeqsUpTo(S, n) == UNION {SeqsOfLen(S, k) : k \in 0..n}

\* the artist the i-th plot call on an Axes creates
Plotted(ax, i, label) ==
    [handle |-> Handle(ax.label \o (IF ax.twin THEN "~" ELSE "") \o "#" \o ToString(i),
                       Some(ax.fig)),
     label |-> label]

\* extra legend items a caller registers: a handle of its own and a label
ExtraItems == {[handle |-> Handle("h1", None), label |-> "a"],
               [handle |-> Handle("h2", None), label |-> "b"]}

\* what a caller does on a plotter just built or just cleared, as one step:
\* up to MaxTwins twins, up to MaxOwn plots on each Axes, up to MaxExtras
\* extra legend items on one axis (none after clear_all_axes, which leaves
\* no list to append to)
Decorate ==
    /\ pc = "ready"
    /\ ret.op \in {"none", "clear_all_axes"}
    /\ \A a \in DOMAIN own : own[a] = <<>>
    /\ LET registered == SeqToSet(DictValues(ax_dict))
           names == KeySet(additional_handles)
       IN \E twins \in {t \in SUBSET {Twin(a) : a \in registered} :
                             Cardinality(t) <= MaxTwins} :
             \E labels \in [registered \cup twins -> SeqsUpTo(Labels, MaxOwn)],
                extra \in {e \in [names -> SeqsUpTo(ExtraItems, MaxExtras)] :
                              \A m, n \in names : e[m] # <<>> /\ e[n] # <<>> => m = n} :
                /\ figure' = [figure EXCEPT !.axes = @ \cup twins]
                /\ own' = [a \in figure.axes \cup twins |->
                              IF a \in DOMAIN labels
                              THEN [i \in 1..Len(labels[a]) |->
                                       Plotted(a, i, labels[a][i])]
                              ELSE <<>>]
                /\ additional_handles' =
                       [i \in 1..Len(additional_handles) |->
                           Entry(additional_handles[i].k,
                                 [j \in 1..Len(extra[additional_handles[i].k]) |->
                                     extra[additional_handles[i].k][j].handle])]
                /\ additional_labels' =
                       [i \in 1..Len(additional_labels) |->
                           Entry(additional_labels[i].k,
                                 [j \in 1..Len(extra[additional_labels[i].k]) |->
                                     extra[additional_labels[i].k][j].label])]
                /\ ret' = Returned("decorate", twins, <<>>)
    /\ UNCHANGED <<pc, layout, registries, error, log, legends, sup>>

InitAxisItems == InitPlotter

GetAxisLegendItems ==
    /\ pc = "ready"
    /\ \E ax_name \in KeySet(ax_dict) :
          ret' = Returned("get_axis_legend_items", ax_name, axis_legend_items(ax_name))
    /\ unchanged_plotter

\* add_axis_legend(ax_name): the (handles, labels) it returns
add_axis_legend(ax_name) ==
    LET items == axis_legend_items(ax_name)
    IN remove_dulicated_legend_items(items.handles, items.labels)

AddAxisLegend ==
    /\ pc = "ready"
    /\ \E ax_name \in KeySet(ax_dict) :
          ret' = Returned("add_axis_legend", ax_name, add_axis_legend(ax_name))
    /\ unchanged_plotter

NextAxisItems ==
    \/ Decorate
    \/ ClearAllAxes
    \/ GetAxisLegendItems
    \/ AddAxisLegend

SpecAxisItems == InitAxisItems /\ [][NextAxisItems]_vars

-----------------------------------------------------------------------------
(* Functions of the module, on their own *)

\* no plotter: the state around a call of a function of the module
NoPlotter ==
    /\ pc = "pure"
    /\ layout = None
    /\ grouped_sf_dict = <<>>
    /\ grouped_ax_dict = <<>>
    /\ error = None
    /\ log = <<>>
    /\ figure = [subfigs |-> {}, axes |-> {}]
    /\ additional_handles = <<>>
    /\ additional_labels = <<>>
    /\ own = <<>>
    /\ legends = <<>>
    /\ sup = <<>>

InitItems ==
    /\ NoPlotter
    /\ \E n, m \in 0..MaxItems :
          \E hs \in SeqsOfLen(Handles, n), ls \in SeqsOfLen(Labels, m) :
              ret = Returned("items", [handles |-> hs, labels |-> ls], <<>>)

RemoveDuplicated ==
    /\ pc = "pure"
    /\ ret.op = "items"
    /\ ret' = Returned("remove_duplicated", ret.arg,
                       remove_dulicated_legend_items(ret.arg.handles, ret.arg.labels))
    /\ unchanged_plotter

NextItems == RemoveDuplicated

SpecItems == InitItems /\ [][NextItems]_vars

-----------------------------------------------------------------------------
(* imshow._scale_cbar *)

MaxAbs == 2      \* data values and caller bounds are -MaxAbs..MaxAbs, or NaN
MaxArrays == 2   \* arrays in data_list
MaxLen == 1      \* values in one array
MaxImages == 2   \* images handed to _scale_cbar

\* a float: a number or NaN
Num(v) == [nan |-> FALSE, v |-> v]
NaN == [nan |-> TRUE, v |-> 0]

Floats == {Num(v) : v \in (-MaxAbs)..MaxAbs} \cup {NaN}

\* x > y on floats: false as soon as one is NaN
Gt(x, y) == ~x.nan /\ ~y.nan /\ x.v > y.v

\* abs(x), -x
Abs(x) == IF x.nan THEN NaN ELSE Num(IF x.v < 0 THEN -x.v ELSE x.v)
Neg(x) == IF x.nan THEN NaN ELSE Num(-x.v)

\* Python's max(x, y): y when y > x, else x
PyMax(x, y) == IF Gt(y, x) THEN y ELSE x

\* np.nanmin / np.nanmax of a non-empty array: NaN entries are skipped, and
\* the result is NaN when nothing else is there
NanMin(q) ==
    LET nums == {q[i].v : i \in {j \in 1..Len(q) : ~q[j].nan}}
    IN IF nums = {} THEN NaN
       ELSE Num(CHOOSE v \in nums : \A w \in nums : v <= w)

NanMax(q) ==
    LET nums == {q[i].v : i \in {j \in 1..Len(q) : ~q[j].nan}}
    IN IF nums = {} THEN NaN
       ELSE Num(CHOOSE v \in nums : \A w \in nums : v >= w)

\* max(vmin, vmax), the absolute values forgotten
AbsNormWithoutAbs(vmin, vmax) == PyMax(vmin, vmax)

\* abs_norm = max(abs(vmin), abs(vmax))
AbsNorm(vmin, vmax) == PyMax(Abs(vmin), Abs(vmax))

Norm(kind, vmin, vmax, id) == [kind |-> kind, vmin |-> vmin, vmax |-> vmax, id |-> id]

\* the norm of _scale_cbar, the caller's bounds ignored
ScaledNormFromDataOnly(data_list, is_symetric_cbar, is_log, vmin, vmax) ==
    LET lo == NanMin([i \in 1..Len(data_list) |-> NanMin(data_list[i])])
        hi == NanMax([i \in 1..Len(data_list) |-> NanMax(data_list[i])])
        abs_norm == AbsNorm(lo, hi)
        lo2 == IF is_symetric_cbar THEN Neg(abs_norm) ELSE lo
        hi2 == IF is_symetric_cbar THEN abs_norm ELSE hi
    IN Norm(IF is_log THEN "LogNorm" ELSE "Normalize", Some(lo2), Some(hi2), 0)

\* the norm _scale_cbar builds; vmin and vmax are None or Some(float)
ScaledNorm(data_list, is_symetric_cbar, is_log, vmin, vmax) ==
    LET lo == IF vmin = None
              THEN NanMin([i \in 1..Len(data_list) |-> NanMin(data_list[i])])
              ELSE vmin[1]
        hi == IF vmax = None
              THEN NanMax([i \in 1..Len(data_list) |-> NanMax(data_list[i])])
              ELSE vmax[1]
        abs_norm == AbsNorm(lo, hi)
        lo2 == IF is_symetric_cbar THEN Neg(abs_norm) ELSE lo
        hi2 == IF is_symetric_cbar THEN abs_norm ELSE hi
    IN Norm(IF is_log THEN "LogNorm" ELSE "Normalize", Some(lo2), Some(hi2), 0)

\* the norms of the images once _scale_cbar has returned
scale_cbar(images, data_list, is_symetric_cbar, is_log, vmin, vmax) ==
    [i \in 1..Len(images) |->
        ScaledNorm(data_list, is_symetric_cbar, is_log, vmin, vmax)]

\* the norm an image starts with: a Normalize() of its own, without bounds
FreshNorm(i) == Norm("Normalize", None, None, i)

Arrays == UNION {SeqsOfLen(Floats, n) : n \in 1..MaxLen}

CallerBounds == {None} \cup {Some(Num(v)) : v \in (-MaxAbs)..MaxAbs}

InitCbar ==
    /\ NoPlotter
    /\ \E n \in 1..MaxImages, k \in 1..MaxArrays :
          \E data_list \in SeqsOfLen(Arrays, k), sym \in BOOLEAN, is_log \in BOOLEAN,
             vmin \in CallerBounds, vmax \in CallerBounds :
              ret = Returned("cbar_args",
                             [images |-> [i \in 1..n |-> FreshNorm(i)],
                              data_list |-> data_list, is_symetric_cbar |-> sym,
                              is_log |-> is_log, vmin |-> vmin, vmax |-> vmax],
                             <<>>)

ScaleCbar ==
    /\ pc = "pure"
    /\ ret.op = "cbar_args"
    /\ ret' = Returned("scale_cbar", ret.arg,
                       scale_cbar(ret.arg.images, ret.arg.data_list,
                                  ret.arg.is_symetric_cbar, ret.arg.is_log,
                                  ret.arg.vmin, ret.arg.vmax))
    /\ unchanged_plotter

NextCbar == ScaleCbar

SpecCbar == InitCbar /\ [][NextCbar]_vars

-----------------------------------------------------------------------------
(* What a layout declares, read off the builder tree *)

\* the i-th cell of a grid of ncols columns, counted row by row
Cell(fig, i, ncols) == Append(fig, <<(i - 1) \div ncols, (i - 1) % ncols>>)

RootBuilder == IF layout = None THEN DefaultBuilder ELSE layout[1]

Named(name, obj) == [name |-> name, obj |-> obj]

\* the leaf axes of builder b applied to fig under figname: name and Axes
RECURSIVE DeclaredAxes(_, _, _)
DeclaredAxes(b, fig, figname) ==
    IF b.kind = "mosaic"
    THEN {Named(b.mosaic[i], Axis(fig, b.mosaic[i])) :
              i \in {j \in 1..Len(b.mosaic) : b.mosaic[j] # EmptySentinel}}
    ELSE IF b.sub_builders = None
    THEN {Named(DefaultSfName(figname, n - 1) \o "_ax1-1",
                Axis(Cell(fig, n, b.ncols), DefaultSfName(figname, n - 1) \o "_ax1-1")) :
              n \in 1..(b.nrows * b.ncols)}
    ELSE UNION {DeclaredAxes(b.sub_builders[1][i].v, Cell(fig, i, b.ncols),
                             b.sub_builders[1][i].k) :
                    i \in 1..Min(Len(b.sub_builders[1]), b.nrows * b.ncols)}

\* the subfigures of builder b applied to fig under figname: name and SubFigure
RECURSIVE DeclaredSubfigs(_, _, _)
DeclaredSubfigs(b, fig, figname) ==
    IF b.kind = "mosaic" THEN {}
    ELSE IF b.sub_builders = None
    THEN {Named(DefaultSfName(figname, n - 1), Cell(fig, n, b.ncols)) :
              n \in 1..(b.nrows * b.ncols)}
    ELSE UNION {{Named(b.sub_builders[1][i].k, Cell(fig, i, b.ncols))}
                \cup DeclaredSubfigs(b.sub_builders[1][i].v, Cell(fig, i, b.ncols),
                                     b.sub_builders[1][i].k) :
                    i \in 1..Min(Len(b.sub_builders[1]), b.nrows * b.ncols)}

Leaves == DeclaredAxes(RootBuilder, RootFig, RootName)

Subfigures == DeclaredSubfigs(RootBuilder, RootFig, RootName)

\* the builder applied to the figure or subfigure `path`
RECURSIVE NodeAt(_, _)
NodeAt(b, path) ==
    IF path = <<>> THEN b
    ELSE NodeAt(b.sub_builders[1][path[1][1] * b.ncols + path[1][2] + 1].v, Tail(path))

CountError == error # None /\ error[1].what = "builders_count"

NameError == error # None /\ error[1].what \in {"name_reused", "names_reused"}

Distinct(q) == \A i, j \in 1..Len(q) : q[i] = q[j] => i = j

-----------------------------------------------------------------------------
(* Claims on construction *)

\* C1: once the constructor has returned, ax_dict holds every leaf axis name
\* the layout declares, exactly once and mapped to the axis created for that
\* leaf, and holds no other key.
C1_EveryLeafRegisteredOnce ==
    pc = "ready" =>
        /\ \A a \in Leaves :
              /\ DictHas(ax_dict, a.name)
              /\ DictGet(ax_dict, a.name) = a.obj
        /\ \A k \in KeySet(ax_dict) : \E a \in Leaves : a.name = k
        /\ Distinct(DictKeys(ax_dict))

\* C2: once the constructor has returned, no axis name designates two axes
\* and no subfigure name designates two subfigures: a layout reusing a key is
\* rejected.
C2_KeysGloballyUnique ==
    pc = "ready" =>
        /\ \A a, b \in Leaves : a.name = b.name => a.obj = b.obj
        /\ \A a, b \in Subfigures : a.name = b.name => a.obj = b.obj

\* the axis names declared in two different subfigures
ReusedAxisNames ==
    {a.name : a \in {x \in Leaves : \E y \in Leaves :
                                        y.name = x.name /\ y.obj.fig # x.obj.fig}}

\* C3: a layout declaring the same axis name in two different subfigures makes
\* the constructor raise, the exception listing exactly the reused names.
C3_ReusedAxisNameRaises ==
    (pc # "new" /\ ~CountError /\ ReusedAxisNames # {}) =>
        /\ pc = "failed"
        /\ NameError
        /\ SeqToSet(error[1].names) = ReusedAxisNames

\* the registrations of subfigures made by the builder applied to f, in order
RegisteredBy(f) ==
    SelectSeq(log, LAMBDA e : e.op = "register_sf" /\ e.fig = f)

\* the first call made on figure f by the builder applied to it
CallsOn(f) ==
    SelectSeq(log, LAMBDA e : e.op \in {"subfigures", "subplot_mosaic"} /\ e.fig = f)

\* C5: a SubfigsBuilder whose sub_builders count differs from nrows * ncols
\* raises before it creates a subfigure or registers anything; one whose count
\* matches never raises this error, and its i-th sub-builder is applied to the
\* i-th grid cell in row-major order, under the i-th name.
C5_CountCheckedFirst ==
    /\ CountError =>
          /\ pc = "failed"
          /\ CountMismatch(NodeAt(RootBuilder, error[1].at))
          /\ \A i \in 1..Len(log) : log[i].fig # error[1].at
          /\ \A s \in figure.subfigs : SubSeq(s, 1, Len(s) - 1) # error[1].at
          /\ error[1].name \notin KeySet(grouped_sf_dict)
                \/ \E i \in 1..Len(log) :
                       log[i].op = "subfigures" /\ log[i].name = error[1].name
    /\ \A j \in 1..Len(log) :
          (log[j].op = "subfigures"
             /\ NodeAt(RootBuilder, log[j].fig).sub_builders # None) =>
              LET f == log[j].fig
                  b == NodeAt(RootBuilder, f)
                  d == b.sub_builders[1]
                  regs == RegisteredBy(f)
              IN /\ ~CountMismatch(b)
                 /\ Len(regs) <= Len(d)
                 /\ pc = "ready" => Len(regs) = Len(d)
                 /\ \A i \in 1..Len(regs) :
                       /\ regs[i].name = d[i].k
                       /\ regs[i].obj = Cell(f, i, b.ncols)
                       /\ LET calls == CallsOn(regs[i].obj)
                          IN IF d[i].v.kind = "subfigs" /\ CountMismatch(d[i].v)
                             THEN calls = <<>> /\ CountError
                                  /\ error[1].at = regs[i].obj
                             ELSE /\ Len(calls) = 1
                                  /\ calls[1].name = d[i].k
                                  /\ calls[1].op = IF d[i].v.kind = "mosaic"
                                                   THEN "subplot_mosaic"
                                                   ELSE "subfigures"

\* C5 witness: a nested builder has raised on its count, after its parent
\* registered it
C5_Witness ==
    /\ CountError
    /\ error[1].at # RootFig
    /\ Len(log) >= 2

\* C4: get_axis and get_subfigure return the entry registered under the name,
\* or raise a ValueError carrying the name when there is none; get_axes raises
\* on its first unknown name; none of them changes the registries.
C4_Lookups ==
    /\ [](ret.op = "get_axis" =>
            IF \E i \in 1..Len(ax_dict) : ax_dict[i].k = ret.arg
            THEN /\ ret.raised = None
                 /\ \E i \in 1..Len(ax_dict) :
                        ax_dict[i].k = ret.arg /\ ax_dict[i].v = ret.value
            ELSE /\ ret.raised # None
                 /\ ret.raised[1].type = "ValueError"
                 /\ ret.raised[1].name = ret.arg)
    /\ [](ret.op = "get_subfigure" =>
            IF \E i \in 1..Len(sf_dict) : sf_dict[i].k = ret.arg
            THEN /\ ret.raised = None
                 /\ \E i \in 1..Len(sf_dict) :
                        sf_dict[i].k = ret.arg /\ sf_dict[i].v = ret.value
            ELSE /\ ret.raised # None
                 /\ ret.raised[1].type = "ValueError"
                 /\ ret.raised[1].name = ret.arg)
    /\ [](ret.op = "get_axes" =>
            LET unknown == {i \in 1..Len(ret.arg) : ret.arg[i] \notin KeySet(ax_dict)}
            IN IF unknown = {}
               THEN /\ ret.raised = None
                    /\ Len(ret.value) = Len(ret.arg)
                    /\ \A i \in 1..Len(ret.arg) :
                           ret.value[i] = DictGet(ax_dict, ret.arg[i])
               ELSE /\ ret.raised # None
                    /\ ret.raised[1].type = "ValueError"
                    /\ \E i \in unknown :
                           /\ ret.raised[1].name = ret.arg[i]
                           /\ \A j \in unknown : i <= j)
    /\ [][ret'.op \in {"get_axis", "get_subfigure", "get_axes"} =>
              UNCHANGED <<registries, extras, artists>>]_vars

\* C4 witness: a look-up of an unknown name has raised, in a plotter that
\* registers subfigures and axes
C4_Witness ==
    /\ ret.op = "get_axes"
    /\ Len(ret.arg) = 2
    /\ ret.arg[1] \in KeySet(ax_dict)
    /\ ret.raised # None
    /\ sf_dict # <<>>

-----------------------------------------------------------------------------
(* Claims on legend de-duplication *)

\* the i-th gathered item, as zip(labels, handles) pairs them
ItemLabel(arg, i) == arg.labels[i]
ItemHandle(arg, i) == arg.handles[i]
ItemCount(arg) == Min(Len(arg.handles), Len(arg.labels))

\* the items met again later in the gathered lists, same label and same handle
DuplicatedItems(arg) ==
    {i \in 1..ItemCount(arg) :
        \E j \in 1..ItemCount(arg) :
            /\ j # i
            /\ ItemLabel(arg, j) = ItemLabel(arg, i)
            /\ ItemHandle(arg, j) = ItemHandle(arg, i)}

LastWith(arg, label) ==
    CHOOSE i \in 1..ItemCount(arg) :
        /\ ItemLabel(arg, i) = label
        /\ \A j \in 1..ItemCount(arg) : ItemLabel(arg, j) = label => j <= i

\* C6 as stated: a (label, handle) pair gathered several times is in the
\* aggregated result exactly once, and the two returned lists have one length.
C6_DuplicatePairKeptOnce ==
    ret.op = "remove_duplicated" =>
        /\ Len(ret.value.handles) = Len(ret.value.labels)
        /\ \A i \in DuplicatedItems(ret.arg) :
              Cardinality({j \in 1..Len(ret.value.labels) :
                              /\ ret.value.labels[j] = ItemLabel(ret.arg, i)
                              /\ ret.value.handles[j] = ItemHandle(ret.arg, i)}) = 1

\* C6 amended: a (label, handle) pair gathered several times leaves exactly
\* one item with that label in the aggregated result, carrying the handle of
\* the label's last occurrence: the pair itself unless a later item gives the
\* label another handle; the two returned lists have one length.
C6_DuplicateLabelKeptOnce ==
    ret.op = "remove_duplicated" =>
        /\ Len(ret.value.handles) = Len(ret.value.labels)
        /\ \A i \in DuplicatedItems(ret.arg) :
              LET label == ItemLabel(ret.arg, i)
                  at == {j \in 1..Len(ret.value.labels) : ret.value.labels[j] = label}
              IN /\ Cardinality(at) = 1
                 /\ \A j \in at :
                       ret.value.handles[j] =
                           ItemHandle(ret.arg, LastWith(ret.arg, label))
                 /\ ItemHandle(ret.arg, LastWith(ret.arg, label)) = ItemHandle(ret.arg, i)
                       => \A j \in at : ret.value.handles[j] = ItemHandle(ret.arg, i)

\* C6 witness: a pair gathered twice, then its label with another handle, has
\* been de-duplicated
C6_Witness ==
    /\ ret.op = "remove_duplicated"
    /\ \E i \in DuplicatedItems(ret.arg) :
          ItemHandle(ret.arg, LastWith(ret.arg, ItemLabel(ret.arg, i)))
              # ItemHandle(ret.arg, i)

-----------------------------------------------------------------------------
(* Claims on the colour scale *)

\* equality of floats: NaN equals nothing
FEq(x, y) == ~x.nan /\ ~y.nan /\ x.v = y.v

AbsInt(v) == IF v < 0 THEN -v ELSE v
MaxInt(v, w) == IF v < w THEN w ELSE v

\* every number held by the sample arrays
Samples(data_list) ==
    UNION {{data_list[i][j].v : j \in {k \in 1..Len(data_list[i]) : ~data_list[i][k].nan}} :
               i \in 1..Len(data_list)}

SetMin(S) == CHOOSE v \in S : \A w \in S : v <= w
SetMax(S) == CHOOSE v \in S : \A w \in S : v >= w

\* C7 as stated: in symmetric mode every image gets a norm with
\* vmin = -vmax = -max(|data_min|, |data_max|), the minimum and maximum taken
\* over all sample arrays (which hold a number); so vmin <= 0 <= vmax and
\* vmin + vmax = 0.
C7_SymmetricFromData ==
    (ret.op = "scale_cbar" /\ ret.arg.is_symetric_cbar
       /\ Samples(ret.arg.data_list) # {}) =>
        LET S == Samples(ret.arg.data_list)
            m == MaxInt(AbsInt(SetMin(S)), AbsInt(SetMax(S)))
        IN \A i \in 1..Len(ret.value) :
               /\ FEq(ret.value[i].vmin[1], Num(-m))
               /\ FEq(ret.value[i].vmax[1], Num(m))

\* the bound the scale starts from: the caller's, else the one of the data
LowBound(arg) ==
    IF arg.vmin # None THEN arg.vmin[1]
    ELSE IF Samples(arg.data_list) = {} THEN NaN
    ELSE Num(SetMin(Samples(arg.data_list)))

HighBound(arg) ==
    IF arg.vmax # None THEN arg.vmax[1]
    ELSE IF Samples(arg.data_list) = {} THEN NaN
    ELSE Num(SetMax(Samples(arg.data_list)))

\* C7 amended: in symmetric mode every image gets a norm with
\* vmin = -vmax = -max(|lo|, |hi|), where lo is the caller's vmin when one is
\* given and else the minimum over all sample arrays (NaN skipped), and hi
\* likewise from vmax and the maximum, provided lo and hi are numbers; then
\* vmin <= 0 <= vmax and vmin + vmax = 0, and with no caller bound this is
\* -max(|data_min|, |data_max|).
C7_SymmetricScale ==
    (ret.op = "scale_cbar" /\ ret.arg.is_symetric_cbar
       /\ ~LowBound(ret.arg).nan /\ ~HighBound(ret.arg).nan) =>
        /\ Len(ret.value) = Len(ret.arg.images)
        /\ \A i \in 1..Len(ret.value) :
              LET m == MaxInt(AbsInt(LowBound(ret.arg).v), AbsInt(HighBound(ret.arg).v))
                  lo == ret.value[i].vmin[1]
                  hi == ret.value[i].vmax[1]
              IN /\ FEq(lo, Num(-m))
                 /\ FEq(hi, Num(m))
                 /\ lo.v <= 0 /\ 0 <= hi.v /\ lo.v + hi.v = 0
                 /\ (ret.arg.vmin = None /\ ret.arg.vmax = None) =>
                        m = MaxInt(AbsInt(SetMin(Samples(ret.arg.data_list))),
                                   AbsInt(SetMax(Samples(ret.arg.data_list))))

\* C7 witness: symmetric scaling of two images from the data alone, the
\* minimum being the larger in absolute value
C7_Witness ==
    /\ ret.op = "scale_cbar"
    /\ ret.arg.is_symetric_cbar
    /\ ret.arg.vmin = None /\ ret.arg.vmax = None
    /\ Len(ret.arg.images) = 2
    /\ Len(ret.arg.data_list) = 2
    /\ Samples(ret.arg.data_list) # {}
    /\ AbsInt(SetMin(Samples(ret.arg.data_list))) > AbsInt(SetMax(Samples(ret.arg.data_list)))
    /\ SetMax(Samples(ret.arg.data_list)) > 0

-----------------------------------------------------------------------------
(* savefig and add_fig_legend *)

\* every figure and subfigure of the tree
AllFigs == {RootFig} \cup figure.subfigs

\* C8: whenever savefig is called, the bbox_extra_artists it hands to the
\* figure's save routine hold every legend attached to the root figure, every
\* legend attached to any subfigure of the tree, and every existing suptitle,
\* supxlabel and supylabel of the figure and of the subfigures.
C8_SavedExtentHoldsEveryArtist ==
    ret.op = "savefig" =>
        LET extra == SeqToSet(DictGet(ret.value.kwargs, "bbox_extra_artists"))
        IN \A f \in AllFigs :
              /\ SeqToSet(legends[f]) \subseteq extra
              /\ \A kind \in sup[f] : SupArtist(kind, f) \in extra

IsPrefix(p, q) == Len(p) <= Len(q) /\ SubSeq(q, 1, Len(p)) = p

\* C9: savefig forwards its positional arguments and every keyword option
\* unchanged to the figure's save routine, but for bbox_inches, which is
\* "tight" when the caller gave none and the caller's value otherwise, and
\* bbox_extra_artists, which starts with the caller's artists in their order;
\* and savefig changes neither the registries nor the extra legend items.
C9_SavefigForwards ==
    /\ [](ret.op = "savefig" =>
            LET given == ret.arg.kwargs
                sent == ret.value.kwargs
                special == {"bbox_inches", "bbox_extra_artists"}
            IN /\ ret.value.args = ret.arg.args
               /\ Distinct(DictKeys(sent))
               /\ KeySet(sent) = KeySet(given) \cup special
               /\ \A k \in KeySet(given) \ special : DictGet(sent, k) = DictGet(given, k)
               /\ DictGet(sent, "bbox_inches") =
                      (IF DictHas(given, "bbox_inches")
                       THEN DictGet(given, "bbox_inches") ELSE "tight")
               /\ IsPrefix(IF DictHas(given, "bbox_extra_artists")
                           THEN DictGet(given, "bbox_extra_artists") ELSE <<>>,
                           DictGet(sent, "bbox_extra_artists")))
    /\ [][ret'.op = "savefig" => UNCHANGED <<registries, extras, artists>>]_vars

\* C9 witness: savefig called with a dpi, a bbox_inches of its own and an
\* artist of its own, while the figure carries a legend and a suptitle
C9_Witness ==
    /\ ret.op = "savefig"
    /\ KeySet(ret.arg.kwargs) = {"dpi", "bbox_inches", "bbox_extra_artists"}
    /\ DictGet(ret.arg.kwargs, "bbox_inches") # "tight"
    /\ DictGet(ret.arg.kwargs, "bbox_extra_artists") # <<>>
    /\ legends[RootFig] # <<>>
    /\ \E f \in AllFigs : sup[f] # {}

\* the Axes lying in a figure or in a subfigure below it
AxesOf(target) == {a \in figure.axes : IsPrefix(target, a.fig)}

\* a handle is found among the axes of the target: an artist with a label on
\* one of them, or an extra legend item registered for one of them
HandleAmong(target) ==
    \/ \E a \in AxesOf(target) : own[a] # <<>>
    \/ \E i \in 1..Len(additional_handles) :
          /\ additional_handles[i].v # <<>>
          /\ DictHas(ax_dict, additional_handles[i].k)
          /\ DictGet(ax_dict, additional_handles[i].k) \in AxesOf(target)

\* C10: add_fig_legend(name) returns None exactly when no handle is found
\* among the axes of the target, the whole figure when name is None and else
\* the named subfigure; otherwise it returns the new legend, attached to the
\* target.
C10_NoneIffNoHandle ==
    (/\ ret.op = "add_fig_legend"
     /\ ret.raised = None
     /\ ret.arg # None => DictHas(sf_dict, ret.arg[1])) =>
        LET target == IF ret.arg = None THEN RootFig ELSE DictGet(sf_dict, ret.arg[1])
        IN /\ (ret.value = None) <=> ~HandleAmong(target)
           /\ ret.value # None => ret.value[1] \in SeqToSet(legends[target])

-----------------------------------------------------------------------------
(* clear_all_axes and clear_fig_legends *)

\* the root figure and the subfigures of sf_dict
Registered == {RootFig} \cup SeqToSet(DictValues(sf_dict))

\* C11: after clear_all_axes no extra legend handle or label remains for any
\* axis and no legend remains on the root figure or on a registered
\* subfigure, the registries being unchanged; clear_fig_legends removes the
\* same legends and leaves the extra legend items unchanged.
C11_Clearing ==
    /\ [](ret.op = "clear_all_axes" =>
            /\ \A i \in 1..Len(ax_dict) :
                  /\ GetOrEmpty(additional_handles, ax_dict[i].k) = <<>>
                  /\ GetOrEmpty(additional_labels, ax_dict[i].k) = <<>>
            /\ \A i \in 1..Len(additional_handles) : additional_handles[i].v = <<>>
            /\ \A i \in 1..Len(additional_labels) : additional_labels[i].v = <<>>
            /\ \A f \in Registered : legends[f] = <<>>)
    /\ [](ret.op = "clear_fig_legends" => \A f \in Registered : legends[f] = <<>>)
    /\ [][ret'.op = "clear_all_axes" => UNCHANGED registries]_vars
    /\ [][ret'.op = "clear_fig_legends" => UNCHANGED <<registries, extras>>]_vars

\* C11 witness: clear_fig_legends has run on a plotter with a plotted line
\* and an extra legend item, which is still there
C11_Witness ==
    /\ ret.op = "clear_fig_legends"
    /\ \E a \in figure.axes : own[a] # <<>>
    /\ \E i \in 1..Len(additional_handles) : additional_handles[i].v # <<>>
    /\ figure.subfigs # {}

-----------------------------------------------------------------------------
(* add_extra_legend_item *)

\* C12: after add_extra_legend_item(ax_name, handle, label) on a registered
\* axis the pair (handle, label) is the last of the legend items gathered for
\* that axis, after the axis's own items, and is among the items gathered for
\* the whole figure; and the extra handles and the extra labels stored for an
\* axis have the same length.
C12_ExtraItemGathered ==
    /\ \A i \in 1..Len(ax_dict) :
          Len(GetOrEmpty(additional_handles, ax_dict[i].k))
              = Len(GetOrEmpty(additional_labels, ax_dict[i].k))
    /\ (ret.op = "add_extra_legend_item" /\ DictHas(ax_dict, ret.arg.ax_name)) =>
          /\ ret.raised = None
          /\ LET items == axis_legend_items(ret.arg.ax_name)
                 mine == get_legend_handles_labels(DictGet(ax_dict, ret.arg.ax_name))
                 all == gather_figure_legend_items(None, FALSE)
                 n == Len(items.handles)
             IN /\ n > Len(mine.handles)
                /\ Len(items.labels) = n
                /\ items.handles[n] = ret.arg.handle
                /\ items.labels[n] = ret.arg.label
                /\ IsPrefix(mine.handles, items.handles)
                /\ IsPrefix(mine.labels, items.labels)
                /\ \E j \in 1..Len(all.handles) :
                      /\ all.handles[j] = ret.arg.handle
                      /\ all.labels[j] = ret.arg.label

-----------------------------------------------------------------------------
(* Axes by subfigure *)

\* the axes a builder created in a figure or in a subfigure below it
BuiltAxesOf(target) == {a \in AxesOf(target) : ~a.twin}

\* C13: for a registered subfigure name,
\* add_grid_and_tick_prams_to_all_axes(subfigure_name) raises nothing and
\* applies the settings to every axis of that subfigure and to no other; with
\* no name it applies them to every axis of the figure.
C13_GridOnEveryAxisOfTarget ==
    (/\ ret.op = "add_grid_and_tick_prams_to_all_axes"
     /\ ret.arg # None => DictHas(sf_dict, ret.arg[1])) =>
        /\ ret.raised = None
        /\ SeqToSet(ret.value) =
              BuiltAxesOf(IF ret.arg = None THEN RootFig
                          ELSE DictGet(sf_dict, ret.arg[1]))

\* the handles gathering should find for a target: those of the artists on
\* its axes and the extra items registered for its axes
HandlesOf(target) ==
    UNION {SeqToSet(get_legend_handles_labels(a).handles) : a \in AxesOf(target)}
    \cup UNION {SeqToSet(GetOrEmpty(additional_handles, ax_dict[i].k)) :
                   i \in {j \in 1..Len(ax_dict) : ax_dict[j].v \in AxesOf(target)}}

\* C14: get_subfigure_ax_dict(name) returns exactly the axes lying inside the
\* named subfigure, nested subfigures included; figure-legend gathering takes
\* its items from exactly the axes of its target, the whole figure with no
\* name and the named subfigure otherwise.
C14_GatheringScoped ==
    /\ (ret.op = "get_subfigure_ax_dict" /\ DictHas(sf_dict, ret.arg)) =>
          /\ ret.raised = None
          /\ SeqToSet(DictValues(ret.value)) = BuiltAxesOf(DictGet(sf_dict, ret.arg))
    /\ (/\ ret.op = "gather_figure_legend_items"
        /\ ret.arg.fig_name # None => DictHas(sf_dict, ret.arg.fig_name[1])) =>
          LET target == IF ret.arg.fig_name = None THEN RootFig
                        ELSE DictGet(sf_dict, ret.arg.fig_name[1])
          IN /\ ret.raised = None
             /\ SeqToSet(ret.value.handles) \subseteq HandlesOf(target)
             /\ ~ret.arg.remove_duplicates =>
                    SeqToSet(ret.value.handles) = HandlesOf(target)

-----------------------------------------------------------------------------
(* De-duplication as a mapping on the label *)

FirstWith(arg, label) ==
    CHOOSE i \in 1..ItemCount(arg) :
        /\ ItemLabel(arg, i) = label
        /\ \A j \in 1..ItemCount(arg) : ItemLabel(arg, j) = label => i <= j

\* C15: de-duplication keeps one entry per label, the labels of the result
\* being pairwise distinct and in the order of their first occurrence among
\* the gathered items, each with the handle of its last occurrence.
C15_LastWriteWins ==
    ret.op = "remove_duplicated" =>
        LET out == ret.value
        IN /\ Len(out.handles) = Len(out.labels)
           /\ Distinct(out.labels)
           /\ SeqToSet(out.labels) =
                  {ItemLabel(ret.arg, i) : i \in 1..ItemCount(ret.arg)}
           /\ \A j, k \in 1..Len(out.labels) :
                  j < k => FirstWith(ret.arg, out.labels[j]) < FirstWith(ret.arg, out.labels[k])
           /\ \A j \in 1..Len(out.labels) :
                  out.handles[j] = ItemHandle(ret.arg, LastWith(ret.arg, out.labels[j]))

\* C15 witness: a label met first, then another label, then the first label
\* again with another handle
C15_Witness ==
    /\ ret.op = "remove_duplicated"
    /\ ret.arg.labels = <<"a", "b", "a">>
    /\ ret.arg.handles = <<"h1", "h1", "h2">>
    /\ ret.value.labels = <<"a", "b">>
    /\ ret.value.handles = <<"h2", "h1">>

-----------------------------------------------------------------------------
(* The legend items of one axis *)

\* how many times x is in the list q
CountIn(q, x) == Cardinality({i \in 1..Len(q) : q[i] = x})

\* C16: the legend items of an axis are its own handles and labels, then
\* those of the other Axes of the same figure with the same bounds, then the
\* extra items registered for the axis name; no item of an Axes with other
\* bounds is merged in and no item of the axis itself comes twice.
C16_AxisItemsOrder ==
    ret.op = "get_axis_legend_items" =>
        LET ax == DictGet(ax_dict, ret.arg)
            mine == get_legend_handles_labels(ax)
            twin == IF Twin(ax) \in figure.axes
                    THEN get_legend_handles_labels(Twin(ax)) ELSE Items(<<>>, <<>>)
            extra_handles == GetOrEmpty(additional_handles, ret.arg)
            extra_labels == GetOrEmpty(additional_labels, ret.arg)
        IN /\ ret.value.handles = mine.handles \o twin.handles \o extra_handles
           /\ ret.value.labels = mine.labels \o twin.labels \o extra_labels
           /\ \A o \in figure.axes :
                 Bounds(o) # Bounds(ax) =>
                    \A i \in 1..Len(own[o]) : CountIn(ret.value.handles, own[o][i].handle) = 0
           /\ \A i \in 1..Len(own[ax]) : CountIn(ret.value.handles, own[ax][i].handle) = 1

\* C16 witness: the items of an axis with an artist of its own, a twin with
\* an artist, two extra items, and a neighbour in the same figure with an
\* artist too
C16_Witness ==
    /\ ret.op = "get_axis_legend_items"
    /\ LET ax == DictGet(ax_dict, ret.arg)
       IN /\ own[ax] # <<>>
          /\ Twin(ax) \in figure.axes
          /\ own[Twin(ax)] # <<>>
          /\ Len(GetOrEmpty(additional_handles, ret.arg)) = 2
          /\ \E o \in FigureAxes(ax.fig) : Bounds(o) # Bounds(ax) /\ own[o] # <<>>
    /\ Len(ret.value.handles) = 4

-----------------------------------------------------------------------------
(* One legend per figure *)

\* C17: the root figure and each subfigure hold at most one legend; an
\* add_fig_legend that creates a legend replaces the legends of its target by
\* the new one and changes the legends of no other figure or subfigure.
C17_OneLegendPerFigure ==
    /\ [](\A f \in AllFigs : Len(legends[f]) <= 1)
    /\ [][ret'.op = "add_fig_legend" =>
            \A f \in AllFigs :
               legends'[f] # legends[f] =>
                  /\ ret'.raised = None
                  /\ ret'.value # None
                  /\ f = (IF ret'.arg = None THEN RootFig
                          ELSE DictGet(sf_dict, ret'.arg[1]))
                  /\ legends'[f] = ret'.value]_vars

\* C17 witness: a legend was put on the root figure, another line was
\* plotted, and add_fig_legend has just put a legend with both lines on a
\* subfigure, the legend of the root figure still showing one
C17_Witness ==
    /\ ret.op = "add_fig_legend"
    /\ ret.arg # None
    /\ ret.value # None
    /\ Len(ret.value[1].handles) = 2
    /\ ret.value[1].fig # RootFig
    /\ legends[ret.value[1].fig] = ret.value
    /\ Len(legends[RootFig]) = 1
    /\ Len(legends[RootFig][1].handles) = 1

-----------------------------------------------------------------------------
(* One colour scale for all images *)

\* every image carries one and the same norm
SharedNorm(norms) == \A i \in 1..Len(norms) : norms[i] = norms[1]

\* C18 as stated: the norm has the caller's vmin (vmax) when one is given and
\* else the minimum (maximum) over all arrays of data_list (which hold a
\* number); every image carries this one norm; and vmin <= vmax when both
\* come from the data.
C18_BoundsAsGiven ==
    (ret.op = "scale_cbar" /\ Samples(ret.arg.data_list) # {}) =>
        /\ Len(ret.value) = Len(ret.arg.images)
        /\ SharedNorm(ret.value)
        /\ FEq(ret.value[1].vmin[1], LowBound(ret.arg))
        /\ FEq(ret.value[1].vmax[1], HighBound(ret.arg))
        /\ (ret.arg.vmin = None /\ ret.arg.vmax = None) =>
               ret.value[1].vmin[1].v <= ret.value[1].vmax[1].v

\* C18 amended: every image carries one and the same norm, a LogNorm when
\* is_log and a Normalize otherwise. Let lo be the caller's vmin when one is
\* given and else the minimum over all arrays of data_list (NaN skipped), hi
\* likewise from vmax and the maximum, both being numbers. Without
\* is_symetric_cbar the norm has vmin = lo and vmax = hi; with it the norm
\* has vmin = -max(|lo|, |hi|) and vmax = max(|lo|, |hi|), whatever the caller
\* gave. When both bounds come from the data, vmin <= vmax.
C18_SharedScale ==
    (ret.op = "scale_cbar"
       /\ ~LowBound(ret.arg).nan /\ ~HighBound(ret.arg).nan) =>
        LET lo == LowBound(ret.arg)
            hi == HighBound(ret.arg)
            m == MaxInt(AbsInt(lo.v), AbsInt(hi.v))
            norm == ret.value[1]
        IN /\ Len(ret.value) = Len(ret.arg.images)
           /\ SharedNorm(ret.value)
           /\ norm.kind = (IF ret.arg.is_log THEN "LogNorm" ELSE "Normalize")
           /\ ~ret.arg.is_symetric_cbar =>
                  FEq(norm.vmin[1], lo) /\ FEq(norm.vmax[1], hi)
           /\ ret.arg.is_symetric_cbar =>
                  FEq(norm.vmin[1], Num(-m)) /\ FEq(norm.vmax[1], Num(m))
           /\ (ret.arg.vmin = None /\ ret.arg.vmax = None) =>
                  norm.vmin[1].v <= norm.vmax[1].v

\* C18 witness: two images scaled without symmetry from two arrays, the
\* caller giving a vmin below the data and no vmax
C18_Witness ==
    /\ ret.op = "scale_cbar"
    /\ ~ret.arg.is_symetric_cbar
    /\ ret.arg.vmin # None /\ ret.arg.vmax = None
    /\ Len(ret.arg.images) = 2
    /\ Len(ret.arg.data_list) = 2
    /\ Samples(ret.arg.data_list) # {}
    /\ ret.arg.vmin[1].v < SetMin(Samples(ret.arg.data_list))
    /\ SetMin(Samples(ret.arg.data_list)) < SetMax(Samples(ret.arg.data_list))
    /\ ret.value[1].vmin = ret.arg.vmin
    /\ ret.value[2] = ret.value[1]

====
